---- MODULE Spec2Model ----
(***************************************************************************)
(* Model of regl-worldview's GLText command                                *)
(* (packages/regl-worldview/src/commands/GLText.js).                       *)
(*                                                                         *)
(* One renderer instance (makeTextCommand) owns the accumulated character  *)
(* set and the memoized atlas builder.  command(regl) compiles the command *)
(* for a regl context and returns the per-frame function; a frame call     *)
(* accumulates characters, builds the atlas through the memoizer, uploads  *)
(* the texture when the set's size changed, lays out the instances and     *)
(* draws.  JavaScript runs a frame call to completion, so the steps of a   *)
(* frame are modelled as consecutive actions under a program counter that  *)
(* admits no other action in between.                                      *)
(*                                                                         *)
(* Numbers that the code keeps as floating point (measured widths, layout  *)
(* cursors, offsets) are fixed-point integers here, Q units per pixel.     *)
(* Atlas coordinates (x, y, textureWidth, textureHeight) are whole pixels. *)
(***************************************************************************)
EXTENDS Integers, Sequences, FiniteSets, TLC

VARIABLES
    charSet,    \* makeTextCommand: const charSet = new Set(), in insertion order
    memo,       \* memoizeOne's closure state: calledOnce, lastArgs, lastResult
    textures,   \* one atlasTexture per compiled regl context
    pc,         \* position inside the frame call ("idle" between calls)
    frame,      \* locals of the frame call in progress
    autoBackgroundColor,  \* command.autoBackgroundColor
    seen        \* history: the characters of all marker texts passed so far

vars == <<charSet, memo, textures, pc, frame, autoBackgroundColor, seen>>

----------------------------------------------------------------------------
(* Constants of GLText.js *)

FONT_SIZE == 40
BUFFER == 10
MAX_ATLAS_WIDTH == 512

\* fixed-point resolution: units per pixel
Q == 4

Px(n) == Q * n

\* variant: rounds down
Floor(w) == w \div Q

\* Math.ceil of a fixed-point number, in whole pixels
Ceil(w) == (w + Q - 1) \div Q

\* colors: components are 0 or 1
Color(r, g, b, a) == [r |-> r, g |-> g, b |-> b, a |-> a]

DEFAULT_COLOR == Color(1, 0, 1, 1)
BG_COLOR_LIGHT == Color(1, 1, 1, 1)
BG_COLOR_DARK == Color(0, 0, 0, 1)

\* isColorDark of ./Text: the perceptual brightness of the color, in
\* ten-thousandths, is below a fixed threshold
isColorDark(color) == 2126 * color.r + 7152 * color.g + 722 * color.b < 5000

\* tinySDF.size = fontSize + 2 * buffer
SDF_SIZE == FONT_SIZE + 2 * BUFFER

NL == "\n"

----------------------------------------------------------------------------
(* Bounds of the model *)

MaxMarkers == 2
MaxChars == 3
MaxAtlasText == 2
MaxColors == 3

\* the regl contexts the command gets compiled for, in this order
Contexts == {1, 2}

\* characters that marker texts are drawn from in the frame specification
Chars == {"H", "i", NL}

\* characters of the atlas specification: W fills most of a row, X is wider
\* than a row
AtlasChars == {"H", "W", "X", NL}

\* ctx.measureText(char).width for the fixed 40px sans-serif font
measureText(char) ==
    CASE char = "H" -> Px(20)
      [] char = "i" -> Px(8)
      [] char = "W" -> Px(472) + 2     \* 472.5 px
      [] char = "X" -> Px(500) + 2     \* 500.5 px
      [] OTHER      -> Px(11) + 2      \* whitespace, 11.5 px

----------------------------------------------------------------------------
(* Helpers on sequences *)

ToSet(s) == { s[k] : k \in 1..Len(s) }

Max(a, b) == IF a >= b THEN a ELSE b

IsPrefix(s, t) == Len(s) <= Len(t) /\ SubSeq(t, 1, Len(s)) = s

SeqsUpTo(S, n) == UNION { [1..k -> S] : k \in 0..n }

RECURSIVE Flatten(_)
\* the characters visited by "for ({text} of props) for (char of text)"
Flatten(props) ==
    IF props = <<>> THEN <<>>
    ELSE props[1].text \o Flatten(Tail(props))

RECURSIVE SumLen(_)
SumLen(props) ==
    IF props = <<>> THEN 0
    ELSE Len(props[1].text) + SumLen(Tail(props))

----------------------------------------------------------------------------
(* Character accumulation: lines 227-232 *)

\* variant: re-inserting a member moves it to the end
SetAddMoveToEnd(cs, char) == Append(SelectSeq(cs, LAMBDA c : c # char), char)

\* charSet.add(char): a Set keeps insertion order and ignores a member
SetAdd(cs, char) == IF char \in ToSet(cs) THEN cs ELSE Append(cs, char)

RECURSIVE AddAll(_, _)
\* for (const { text } of props) for (const char of text) charSet.add(char)
AddAll(cs, chars) ==
    IF chars = <<>> THEN cs
    ELSE AddAll(SetAdd(cs, Head(chars)), Tail(chars))

----------------------------------------------------------------------------
(* Atlas construction: the function wrapped by memoizeOne, lines 68-113 *)

rowHeight == FONT_SIZE + 2 * BUFFER

\* variant: the cell is as wide as the glyph, without the padding
CellWidthNoPadding(width) == Ceil(width)

\* const dx = Math.ceil(width) + 2 * BUFFER
CellWidth(width) == Ceil(width) + 2 * BUFFER

\* variant: the row is left only once the cursor itself is past the maximum
WrapsCursorOnly(x, dx) == x > MAX_ATLAS_WIDTH

\* if (x + dx > MAX_ATLAS_WIDTH): the glyph starts a new row
Wraps(x, dx) == x + dx > MAX_ATLAS_WIDTH

RECURSIVE Pack(_, _, _)
\* the measuring loop over charSet, from character k on; st holds the
\* cursor (x, y), the running textureWidth and charInfo
Pack(cs, k, st) ==
    IF k > Len(cs) THEN st
    ELSE LET char  == cs[k]
             width == measureText(char)
             dx    == CellWidth(width)
             wrap  == Wraps(st.x, dx)
             x     == IF wrap THEN 0 ELSE st.x
             y     == IF wrap THEN st.y + rowHeight ELSE st.y
             info  == [x |-> x, y |-> y, width |-> width]
         IN Pack(cs, k + 1,
                 [x |-> x + dx,
                  y |-> y,
                  textureWidth |-> Max(st.textureWidth, x + dx),
                  charInfo |-> [c \in DOMAIN st.charInfo \cup {char} |->
                                   IF c = char THEN info ELSE st.charInfo[c]]])

EmptyCharInfo == [c \in {} |-> [x |-> 0, y |-> 0, width |-> 0]]

\* The bitmap is kept as the list of glyph squares copied into it, in copy
\* order: square k is tinySDF.draw(char) placed at (x, y).  Together with
\* textureWidth and textureHeight this determines every texel.
Blits(cs, charInfo) ==
    [k \in 1..Len(cs) |->
        [char |-> cs[k], x |-> charInfo[cs[k]].x, y |-> charInfo[cs[k]].y]]

\* variant: the whole square is copied
CopiesAll(x, j, textureWidth) == TRUE

\* if (x + j < textureWidth): column j of a square placed at x is copied
Copies(x, j, textureWidth) == x + j < textureWidth

\* textureData[textureWidth * (y + i) + x + j] = data[i * tinySDF.size + j]
WriteIndex(textureWidth, x, y, i, j) == textureWidth * (y + i) + x + j

\* the row and column of square b whose sample is stored last at index idx
\* of the bitmap, as <<i, j>>, or <<>> when b stores nothing there; the
\* candidates are the rows i with WriteIndex(.., i, j) = idx for a j of the
\* square
StoredBy(b, textureWidth, idx) ==
    LET rows == { i \in { (idx - b.x) \div textureWidth - b.y - t :
                              t \in 0..((SDF_SIZE - 1) \div textureWidth) } :
                    /\ i \in 0..(SDF_SIZE - 1)
                    /\ idx - WriteIndex(textureWidth, b.x, b.y, i, 0) \in 0..(SDF_SIZE - 1)
                    /\ Copies(b.x, idx - WriteIndex(textureWidth, b.x, b.y, i, 0),
                              textureWidth) }
    IN IF textureWidth = 0 \/ idx < b.x \/ rows = {} THEN <<>>
       ELSE LET i == CHOOSE r \in rows : \A q \in rows : q <= r
            IN <<i, idx - WriteIndex(textureWidth, b.x, b.y, i, 0)>>

RECURSIVE LastStore(_, _, _)
\* the last store at index idx among the first k squares copied, as
\* <<char, i, j>>, or <<>> when none of them stores there
LastStore(atlas, k, idx) ==
    IF k = 0 THEN <<>>
    ELSE LET s == StoredBy(atlas.textureData[k], atlas.textureWidth, idx)
         IN IF s # <<>> THEN <<atlas.textureData[k].char>> \o s
            ELSE LastStore(atlas, k - 1, idx)

\* the texel at index idx of the bitmap of an atlas: <<char, i, j>> when the
\* last store there was sample (i, j) of the square of char, <<>> when the
\* Uint8Array element was never stored to and is still 0
TexelAt(atlas, idx) == LastStore(atlas, Len(atlas.textureData), idx)

buildAtlas(cs) ==
    LET st == Pack(cs, 1, [x |-> 0, y |-> 0, textureWidth |-> 0,
                           charInfo |-> EmptyCharInfo])
    IN [textureData   |-> Blits(cs, st.charInfo),
        textureWidth  |-> st.textureWidth,
        textureHeight |-> st.y + rowHeight,
        charInfo      |-> st.charInfo]

----------------------------------------------------------------------------
(* memoizeOne(fn, isEqual): lines 67-68 and 113 *)

\* variant: reference equality, which a fresh copy never satisfies
isEqualByReference(a, b) == FALSE

\* variant: only checks that the previous members are still present
isEqualSuperset(a, b) == ToSet(b) \subseteq ToSet(a)

\* lodash isEqual on two Sets: same size and same members, in any order
isEqual(a, b) == Len(a) = Len(b) /\ ToSet(a) = ToSet(b)

\* variant: the cached result is returned without comparing the arguments
MemoHitNoCompare(m, arg) == m.calledOnce

\* memoize-one returns lastResult when it was called before with equal
\* arguments
MemoHit(m, arg) == m.calledOnce /\ isEqual(arg, m.lastArgs)

NoAtlas == [textureData |-> <<>>, textureWidth |-> 0, textureHeight |-> 0,
            charInfo |-> EmptyCharInfo]

MemoInit == [calledOnce |-> FALSE, lastArgs |-> <<>>, lastResult |-> NoAtlas]

\* memoizedBuildAtlas(arg): the memoizer's state after the call
MemoCall(m, arg) ==
    IF MemoHit(m, arg) THEN m
    ELSE [calledOnce |-> TRUE, lastArgs |-> arg, lastResult |-> buildAtlas(arg)]

----------------------------------------------------------------------------
(* Instance layout: lines 251-325 *)

\* a typed-array store; a store past the end of the array is ignored
SetAt(buf, slot, v) ==
    IF slot + 1 \in DOMAIN buf THEN [buf EXCEPT ![slot + 1] = v] ELSE buf

\* if (char === "\n") { x = 0; y = FONT_SIZE; continue; }
NewlineY(y) == Px(FONT_SIZE)

\* variant: a character without glyph is passed over
MissingGlyphSkipped(L, dest) == L

\* const info = charInfo[char] is undefined: the two destOffsets stores are
\* done, then reading info.x throws
MissingGlyph(L, dest) == [L EXCEPT !.destOffsets = dest, !.outcome = "TypeError"]

RECURSIVE CharLoop(_, _, _, _)
\* the inner "for (const char of marker.text)" from character k on; L holds
\* the marker's cursor and counters and the frame's buffers
CharLoop(text, k, L, charInfo) ==
    IF k > Len(text) \/ L.outcome # "running" THEN L
    ELSE LET char == text[k]
             slot == L.totalInstances + L.markerInstances
         IN IF char = NL
            THEN CharLoop(text, k + 1,
                          [L EXCEPT !.x = 0, !.y = NewlineY(L.y)], charInfo)
            ELSE LET dest == SetAt(L.destOffsets, slot,
                                   <<L.x - Px(BUFFER), -(L.y - Px(BUFFER))>>)
                 IN IF char \notin DOMAIN charInfo
                    THEN MissingGlyph(L, dest)
                    ELSE LET info == charInfo[char]
                             x    == L.x + info.width
                         IN CharLoop(text, k + 1,
                                [L EXCEPT
                                   !.destOffsets = dest,
                                   !.srcOffsets = SetAt(@, slot, <<Px(info.x), Px(info.y)>>),
                                   !.srcWidths = SetAt(@, slot, info.width + Px(2 * BUFFER)),
                                   !.x = x,
                                   !.totalWidth = Max(@, x),
                                   !.markerInstances = @ + 1],
                                charInfo)

\* an optional value is a sequence with no or one element
None == <<>>

Some(v) == <<v>>

\* a || b on optional values
OrElse(a, b) == IF a # None THEN a ELSE b

\* colors?.[0]
FirstColor(colors) ==
    IF colors # None /\ Len(colors[1]) > 0 THEN Some(colors[1][1]) ELSE None

\* variant: the two fixed backgrounds are swapped
AutoColorsSwapped(marker, auto) ==
    LET colors == marker.colors
    IN IF auto /\ (colors = None \/ Len(colors[1]) # 2)
       THEN LET foregroundColor ==
                    OrElse(FirstColor(colors), OrElse(marker.color, Some(DEFAULT_COLOR)))[1]
            IN Some(<<foregroundColor,
                      IF isColorDark(foregroundColor) THEN BG_COLOR_DARK
                                                      ELSE BG_COLOR_LIGHT>>)
       ELSE colors

\* lines 289-293: the marker's colors, with the derived background when
\* autoBackgroundColor is on and the marker does not bring two colors
AutoColors(marker, auto) ==
    LET colors == marker.colors
    IN IF auto /\ (colors = None \/ Len(colors[1]) # 2)
       THEN LET foregroundColor ==
                    OrElse(FirstColor(colors), OrElse(marker.color, Some(DEFAULT_COLOR)))[1]
            IN Some(<<foregroundColor,
                      IF isColorDark(foregroundColor) THEN BG_COLOR_LIGHT
                                                      ELSE BG_COLOR_DARK>>)
       ELSE colors

\* marker.billboard ?? true, as stored in a Uint8Array
BillboardFlag(marker) ==
    IF marker.billboard = None \/ marker.billboard[1] THEN 1 ELSE 0

\* the body of the outer loops for one marker with non-empty text: its first
\* iteration lays out the whole text, stamps the per-marker data and leaves
\* the frame function
MarkerBody(marker, L0, charInfo) ==
    LET L == CharLoop(marker.text, 1,
                      [L0 EXCEPT !.x = 0, !.y = 0, !.totalWidth = 0,
                                 !.markerInstances = 0],
                      charInfo)
        totalHeight == L.y + Px(FONT_SIZE)
        align == << -(L.totalWidth \div 2), totalHeight \div 2 >>
        colors == AutoColors(marker, autoBackgroundColor)
    IN IF L.outcome # "running" THEN L
       ELSE IF L.markerInstances > 0
       \* i = 0 of the stamping loop: billboard, alignmentOffset and scale are
       \* stored, then "position[...] = ..." names a variable that is declared
       \* nowhere, which throws a ReferenceError
       THEN [L EXCEPT !.totalHeight = totalHeight,
                      !.colors = colors,
                      !.billboard = SetAt(@, L.totalInstances, BillboardFlag(marker)),
                      !.alignmentOffset = SetAt(@, L.totalInstances, align),
                      !.scale = SetAt(@, L.totalInstances, marker.scale),
                      !.outcome = "ReferenceError"]
       \* no instance: the stamping loop is skipped and line 312 returns
       ELSE [L EXCEPT !.totalHeight = totalHeight,
                      !.colors = colors,
                      !.totalInstances = @ + L.markerInstances,
                      !.outcome = "returned",
                      !.returned = [billboard |-> BillboardFlag(marker),
                                    color |-> OrElse(marker.color, Some(DEFAULT_COLOR))[1],
                                    colors |-> colors,
                                    scale |-> marker.scale,
                                    alignmentOffset |-> align,
                                    instances |-> L.totalInstances + L.markerInstances]]

RECURSIVE MarkerLoop(_, _, _, _)
\* "for (const marker of props)" from marker m on.  A marker with empty text
\* runs no iteration of "for (const char of marker.text)".
MarkerLoop(props, m, L, charInfo) ==
    IF m > Len(props) THEN [L EXCEPT !.outcome = "draw"]
    ELSE IF Len(props[m].text) = 0 THEN MarkerLoop(props, m + 1, L, charInfo)
    ELSE MarkerBody(props[m], L, charInfo)

NoScale == [x |-> 0, y |-> 0, z |-> 0]

NoReturn == [billboard |-> 0, color |-> Color(0, 0, 0, 0), colors |-> None,
             scale |-> NoScale, alignmentOffset |-> <<0, 0>>, instances |-> 0]

\* lines 251-263: the counters and the zero-filled buffers
LayoutInit(props) ==
    LET estimatedInstances == SumLen(props)
    IN [totalInstances  |-> 0,
        destOffsets     |-> [k \in 1..estimatedInstances |-> <<0, 0>>],
        srcOffsets      |-> [k \in 1..estimatedInstances |-> <<0, 0>>],
        srcWidths       |-> [k \in 1..estimatedInstances |-> 0],
        alignmentOffset |-> [k \in 1..estimatedInstances |-> <<0, 0>>],
        scale           |-> [k \in 1..estimatedInstances |-> NoScale],
        foregroundColor |-> [k \in 1..estimatedInstances |-> Color(0, 0, 0, 0)],
        outlineColor    |-> [k \in 1..estimatedInstances |-> Color(0, 0, 0, 0)],
        enableOutline   |-> [k \in 1..estimatedInstances |-> 0],
        billboard       |-> [k \in 1..estimatedInstances |-> 0],
        x |-> 0, y |-> 0, totalWidth |-> 0, totalHeight |-> 0,
        markerInstances |-> 0, colors |-> None,
        outcome |-> "running", returned |-> NoReturn]

Layout(props, charInfo) == MarkerLoop(props, 1, LayoutInit(props), charInfo)

----------------------------------------------------------------------------
(* The frame call and its callers *)

\* regl.texture(): an empty 1 x 1 texture until the first upload
NewTexture == [data |-> <<>>, width |-> 1, height |-> 1]

NoFrame ==
    [ctx |-> 0, props |-> <<>>, prevNumChars |-> 0, atlas |-> NoAtlas,
     computed |-> FALSE, uploads |-> 0, draws |-> 0, drawn |-> 0,
     layout |-> LayoutInit(<<>>)]

\* variant: uploads whenever the set is not empty
ShouldUploadNonEmpty(size, prevNumChars) == size # 0

\* if (charSet.size !== prevNumChars)
ShouldUpload(size, prevNumChars) == size # prevNumChars

UnitScale == [x |-> 1, y |-> 1, z |-> 1]

\* a TextMarker that brings only its text and scale
Marker(text) ==
    [text |-> text, scale |-> UnitScale, color |-> None, colors |-> None,
     billboard |-> None]

RECURSIVE MarkerLists(_, _)
\* the lists of at most n markers whose texts have at most budget characters
\* in all
MarkerLists(n, budget) ==
    IF n = 0 THEN { <<>> }
    ELSE { <<>> } \cup
         UNION { { <<Marker(t)>> \o rest : rest \in MarkerLists(n - 1, budget - Len(t)) } :
                 t \in SeqsUpTo(Chars, budget) }

Props == MarkerLists(MaxMarkers, MaxChars)

\* marker lists of the atlas specification: one marker over the larger alphabet
AtlasProps ==
    { <<Marker(t)>> : t \in SeqsUpTo(AtlasChars, MaxAtlasText) }

Init ==
    /\ charSet = <<>>
    /\ memo = MemoInit
    /\ textures = <<>>
    /\ pc = "idle"
    /\ frame = NoFrame
    /\ autoBackgroundColor = FALSE
    /\ seen = {}

\* command(regl), lines 189-224: compiles the command for one more context
Initialize ==
    /\ pc = "idle"
    /\ Len(textures) + 1 \in Contexts
    /\ textures' = Append(textures, NewTexture)
    /\ UNCHANGED <<charSet, memo, pc, frame, autoBackgroundColor, seen>>

\* lines 226-232: the frame function is called on context ctx with props
Accumulate(P) ==
    /\ pc = "idle"
    /\ \E ctx \in 1..Len(textures), props \in P :
        /\ frame' = [NoFrame EXCEPT !.ctx = ctx, !.props = props,
                                    !.prevNumChars = Len(charSet),
                                    !.layout = LayoutInit(props)]
        /\ charSet' = AddAll(charSet, Flatten(props))
        /\ seen' = seen \cup ToSet(Flatten(props))
    /\ pc' = "build"
    /\ UNCHANGED <<memo, textures, autoBackgroundColor>>

\* lines 234-236: memoizedBuildAtlas(new Set(charSet))
BuildAtlas ==
    /\ pc = "build"
    /\ memo' = MemoCall(memo, charSet)
    /\ frame' = [frame EXCEPT !.atlas = memo'.lastResult,
                              !.computed = ~MemoHit(memo, charSet)]
    /\ pc' = "upload"
    /\ UNCHANGED <<charSet, textures, autoBackgroundColor, seen>>

\* lines 238-249: re-upload texture only if characters were added
Upload ==
    /\ pc = "upload"
    /\ IF ShouldUpload(Len(charSet), frame.prevNumChars)
       THEN /\ textures' = [textures EXCEPT ![frame.ctx] =
                               [data   |-> frame.atlas.textureData,
                                width  |-> frame.atlas.textureWidth,
                                height |-> frame.atlas.textureHeight]]
            /\ frame' = [frame EXCEPT !.uploads = @ + 1]
       ELSE UNCHANGED <<textures, frame>>
    /\ pc' = "layout"
    /\ UNCHANGED <<charSet, memo, autoBackgroundColor, seen>>

\* lines 251-325: the layout loops; they fall through to the draw, return
\* from the frame function or throw
LayoutStep ==
    /\ pc = "layout"
    /\ frame' = [frame EXCEPT !.layout = Layout(frame.props, frame.atlas.charInfo)]
    /\ pc' = IF frame'.layout.outcome = "draw" THEN "draw" ELSE "done"
    /\ UNCHANGED <<charSet, memo, textures, autoBackgroundColor, seen>>

\* lines 327-329: drawText({ instances: totalInstances })
Draw ==
    /\ pc = "draw"
    /\ frame' = [frame EXCEPT !.draws = @ + 1, !.drawn = frame.layout.totalInstances]
    /\ pc' = "done"
    /\ UNCHANGED <<charSet, memo, textures, autoBackgroundColor, seen>>

\* the frame call is over: by return, by exception or after the draw
Return ==
    /\ pc = "done"
    /\ pc' = "idle"
    /\ frame' = NoFrame
    /\ UNCHANGED <<charSet, memo, textures, autoBackgroundColor, seen>>

Steps == BuildAtlas \/ Upload \/ LayoutStep \/ Draw \/ Return

Next == Initialize \/ Accumulate(Props) \/ Steps

Spec == Init /\ [][Next]_vars

NextAtlas == Initialize \/ Accumulate(AtlasProps) \/ Steps

SpecAtlas == Init /\ [][NextAtlas]_vars

\* The layout loops as a function of the marker list and the glyph map:
\* lines 251-329 applied to every marker list and the atlas of every
\* character set, whether or not it holds the characters of the markers
OrderedSets(S) == { cs \in SeqsUpTo(S, Cardinality(S)) :
                      \A j, k \in 1..Len(cs) : cs[j] = cs[k] => j = k }

CharSets == OrderedSets(Chars)

InitLayout ==
    \E cs \in CharSets, props \in Props :
        /\ charSet = cs
        /\ memo = MemoCall(MemoInit, cs)
        /\ textures = << [data   |-> buildAtlas(cs).textureData,
                          width  |-> buildAtlas(cs).textureWidth,
                          height |-> buildAtlas(cs).textureHeight] >>
        /\ pc = "layout"
        /\ frame = [NoFrame EXCEPT !.ctx = 1, !.props = props,
                                   !.atlas = buildAtlas(cs), !.computed = TRUE,
                                   !.uploads = 1, !.layout = LayoutInit(props)]
        /\ autoBackgroundColor = FALSE
        /\ seen = ToSet(cs)

NextLayout == LayoutStep \/ Draw \/ Return

SpecLayout == InitLayout /\ [][NextLayout]_vars

\* The first frame of a renderer, called before a second context is
\* compiled, with one marker whose text brings the characters of any set
\* over the larger alphabet in any order
BuildProps == { <<Marker(t)>> : t \in OrderedSets(AtlasChars) }

FirstFrame == ~memo.calledOnce /\ Len(textures) = 1 /\ Accumulate(BuildProps)

NextBuild == Initialize \/ FirstFrame \/ Steps

SpecBuild == Init /\ [][NextBuild]_vars

\* the GLText component renders: line 340 (an absent prop counts as off)
Render ==
    /\ pc = "idle"
    /\ \E auto \in BOOLEAN : autoBackgroundColor' = auto
    /\ UNCHANGED <<charSet, memo, textures, pc, frame, seen>>

\* marker lists of the style specification: one marker, every combination
\* of text, scale, color, colors and billboard
Palette == {Color(0, 0, 1, 1), Color(1, 1, 0, 1)}

StyleTexts == {<<>>, <<"H">>, <<NL>>, <<"H", "i">>}

StyleMarkers ==
    { [text |-> t, scale |-> sc, color |-> c, colors |-> cs, billboard |-> b] :
        t \in StyleTexts,
        sc \in {UnitScale, [x |-> 2, y |-> 2, z |-> 2]},
        c \in {None} \cup { Some(v) : v \in Palette },
        cs \in {None} \cup { Some(l) : l \in SeqsUpTo(Palette, MaxColors) },
        b \in {None, Some(TRUE), Some(FALSE)} }

StyleProps == { <<m>> : m \in StyleMarkers }

NextStyle == Initialize \/ Render \/ Accumulate(StyleProps) \/ Steps

SpecStyle == Init /\ [][NextStyle]_vars

----------------------------------------------------------------------------
(* Properties *)

AfterBuild == pc \in {"upload", "layout", "draw", "done"}

AfterUpload == pc \in {"layout", "draw", "done"}

\* the characters of the frame's marker texts
FrameChars == ToSet(Flatten(frame.props))

\* the accumulated set as it was when the frame call started
CharSetBefore == SubSeq(charSet, 1, frame.prevNumChars)

\* the frame's texts contain a character that was not accumulated before
Grew == ~(FrameChars \subseteq ToSet(CharSetBefore))

NoDuplicates(s) == \A j, k \in 1..Len(s) : s[j] = s[k] => j = k

FirstIndex(s, c) == CHOOSE k \in 1..Len(s) : s[k] = c /\ \A j \in 1..(k - 1) : s[j] # c

NonNewline(text) == Len(SelectSeq(text, LAMBDA c : c # NL))

\* C1: when layout starts in a frame, every character of every marker text of
\* the frame has an entry in charInfo of the atlas returned for that frame.
C1_GlyphsPresentAtLayout ==
    pc = "layout" =>
        /\ memo.calledOnce
        /\ frame.atlas = memo.lastResult
        /\ FrameChars \subseteq DOMAIN frame.atlas.charInfo

\* layout is about to start in a frame that brought a new character to a set
\* that already had members
C1_Witness ==
    /\ pc = "layout"
    /\ frame.prevNumChars > 0
    /\ Grew
    /\ Len(frame.props) = 2

\* C2: every frame call issues exactly one instanced draw, and only after
\* accumulation, atlas build, conditional upload and layout of all markers.
C2_OneDrawPerFrame ==
    /\ pc = "done" => frame.draws = 1
    /\ frame.draws > 0 => pc = "done" /\ frame.layout.outcome = "draw"

\* C3: the instance count produced by layout equals the number of non-newline
\* characters over all markers of the frame.
C3_InstanceCount ==
    pc \in {"draw", "done"} =>
        frame.layout.totalInstances = NonNewline(Flatten(frame.props))

\* C4: a frame performs exactly one texture re-upload if the character set
\* grew during its accumulation, and none if it brought no new character; the
\* upload carries the frame's atlas to the frame's context.
C4_UploadIffGrew ==
    /\ pc \in {"build", "upload"} => frame.uploads = 0
    /\ AfterUpload => frame.uploads = IF Grew THEN 1 ELSE 0
    /\ AfterUpload /\ Grew =>
          textures[frame.ctx] = [data   |-> frame.atlas.textureData,
                                 width  |-> frame.atlas.textureWidth,
                                 height |-> frame.atlas.textureHeight]

\* a frame grew a non-empty set by one character and has uploaded once
C4_Witness ==
    /\ pc = "done"
    /\ frame.prevNumChars > 0
    /\ Len(charSet) = frame.prevNumChars + 1
    /\ frame.uploads = 1

\* C5: the accumulated character set holds exactly the distinct characters of
\* all texts seen so far; a step never removes or reorders members, and the
\* members a frame adds are in the order of their first occurrence.
C5_AppendOnly ==
    /\ [](ToSet(charSet) = seen /\ NoDuplicates(charSet))
    /\ [][ /\ IsPrefix(charSet, charSet')
           /\ \A j, k \in (Len(charSet) + 1)..Len(charSet') :
                 j < k => FirstIndex(Flatten(frame'.props), charSet'[j])
                            < FirstIndex(Flatten(frame'.props), charSet'[k]) ]_vars

\* a frame repeated a known character and appended two new ones
C5_Witness ==
    /\ pc = "build"
    /\ frame.prevNumChars > 0
    /\ Len(charSet) = frame.prevNumChars + 2
    /\ FrameChars \cap ToSet(CharSetBefore) # {}

\* C6 (as stated): the atlas is recomputed in a frame only if the character
\* set grew in that frame; an equal set returns the previous atlas without
\* recomputation and a different one triggers a rebuild of the entire atlas.
C6_RecomputedOnlyIfGrew ==
    [][pc = "build" =>
          /\ frame'.computed => Grew
          /\ ~frame'.computed => frame'.atlas = memo.lastResult /\ memo' = memo
          /\ frame'.computed => frame'.atlas = buildAtlas(charSet)
      ]_vars

\* C6 (amended): the atlas is recomputed in a frame exactly if the character
\* set grew in that frame or the builder had never been invoked before;
\* otherwise the previous atlas is returned and the memoizer is untouched; a
\* recomputation rebuilds the entire atlas from the whole set.
C6_RecomputedIffGrewOrFirst ==
    [][pc = "build" =>
          /\ frame'.computed <=> (Grew \/ ~memo.calledOnce)
          /\ ~frame'.computed => frame'.atlas = memo.lastResult /\ memo' = memo
          /\ frame'.computed =>
                /\ frame'.atlas = buildAtlas(charSet)
                /\ DOMAIN frame'.atlas.charInfo = ToSet(charSet)
                /\ Len(frame'.atlas.textureData) = Len(charSet)
                /\ memo'.lastArgs = charSet
      ]_vars

\* a frame with texts but no new character got the previous atlas back
C6_Witness ==
    /\ pc = "upload"
    /\ ~frame.computed
    /\ frame.prevNumChars > 1
    /\ FrameChars # {}

\* C7: the atlas the builder returns is a function of its ordered input alone:
\* whatever was built before, the atlas returned for a set is the one a fresh
\* build of that ordered set gives.
C7_Deterministic ==
    /\ memo.calledOnce => memo.lastResult = buildAtlas(memo.lastArgs)
    /\ AfterBuild => memo.lastArgs = charSet /\ frame.atlas = buildAtlas(charSet)

\* the builder returned an atlas of two rows after earlier calls on smaller
\* sets
C7_Witness ==
    /\ pc = "upload"
    /\ frame.prevNumChars > 0
    /\ Len(charSet) >= 3
    /\ frame.atlas.textureHeight > rowHeight

\* C8: every glyph whose cell fits a row is placed with x + dx within
\* MAX_ATLAS_WIDTH, a glyph that would cross it starting a new row at x = 0
\* and any other following its predecessor on the same row; an atlas without
\* an over-wide glyph is at most MAX_ATLAS_WIDTH wide.
C8_PackingWithinRow ==
    memo.calledOnce =>
        LET cs    == memo.lastArgs
            atlas == memo.lastResult
            info  == atlas.charInfo
            dx(c) == Ceil(info[c].width) + 2 * BUFFER
        IN /\ \A c \in DOMAIN info :
                 dx(c) <= MAX_ATLAS_WIDTH => info[c].x + dx(c) <= MAX_ATLAS_WIDTH
           /\ (\A c \in DOMAIN info : dx(c) <= MAX_ATLAS_WIDTH)
                 => atlas.textureWidth <= MAX_ATLAS_WIDTH
           /\ \A k \in 1..Len(cs) :
                 LET prevEnd == IF k = 1 THEN 0
                                ELSE info[cs[k - 1]].x + dx(cs[k - 1])
                     prevY   == IF k = 1 THEN 0 ELSE info[cs[k - 1]].y
                 IN IF prevEnd + dx(cs[k]) > MAX_ATLAS_WIDTH
                    THEN info[cs[k]].x = 0 /\ info[cs[k]].y = prevY + rowHeight
                    ELSE info[cs[k]].x = prevEnd /\ info[cs[k]].y = prevY

\* an atlas without an over-wide glyph in which a glyph was moved to a second
\* row
C8_Witness ==
    /\ memo.calledOnce
    /\ "X" \notin DOMAIN memo.lastResult.charInfo
    /\ \E c \in DOMAIN memo.lastResult.charInfo :
          memo.lastResult.charInfo[c].y > 0 /\ memo.lastResult.charInfo[c].x = 0

\* position of a character inside its marker as the layout is specified
LineOf(text, k) == Cardinality({ j \in 1..(k - 1) : text[j] = NL })

LineStart(text, k) ==
    IF LineOf(text, k) = 0 THEN 1
    ELSE 1 + CHOOSE j \in 1..(k - 1) :
                 text[j] = NL /\ \A i \in (j + 1)..(k - 1) : text[i] # NL

RECURSIVE SumWidths(_, _, _)
SumWidths(text, from, to) ==
    IF from > to THEN 0
    ELSE measureText(text[from]) + SumWidths(text, from + 1, to)

RECURSIVE CursorY(_, _)
\* the vertical cursor when character k is reached
CursorY(text, k) ==
    IF k <= 1 THEN 0
    ELSE IF text[k - 1] = NL THEN NewlineY(CursorY(text, k - 1))
    ELSE CursorY(text, k - 1)

SlotOf(props, m, k) ==
    NonNewline(Flatten(SubSeq(props, 1, m - 1)))
        + NonNewline(SubSeq(props[m].text, 1, k - 1))

\* C9: for every marker, each non-newline character emits one instance whose
\* destination offset is (x - padding, -(y - padding)), x the sum of the
\* unpadded widths of the preceding characters of its line, y its line's
\* vertical cursor.
C9_DestOffsets ==
    pc \in {"draw", "done"} =>
        \A m \in 1..Len(frame.props) :
            \A k \in 1..Len(frame.props[m].text) :
                LET text == frame.props[m].text
                    slot == SlotOf(frame.props, m, k)
                IN text[k] # NL =>
                      /\ slot + 1 \in DOMAIN frame.layout.destOffsets
                      /\ frame.layout.destOffsets[slot + 1] =
                            << SumWidths(text, LineStart(text, k), k - 1) - Px(BUFFER),
                               -(CursorY(text, k) - Px(BUFFER)) >>

\* the marker whose text the layout loops went through
LaidOutMarker ==
    frame.props[CHOOSE m \in 1..Len(frame.props) :
                   /\ frame.props[m].text # <<>>
                   /\ \A j \in 1..(m - 1) : frame.props[j].text = <<>>]

\* C10: within a marker a character on the k-th line is laid out with
\* y = k * FONT_SIZE, and totalHeight = (number of newlines + 1) * FONT_SIZE.
C10_Newlines ==
    pc = "done" /\ frame.layout.outcome \in {"returned", "ReferenceError"} =>
        LET text == LaidOutMarker.text
        IN /\ \A k \in 1..Len(text) :
                 text[k] # NL =>
                    frame.layout.destOffsets[NonNewline(SubSeq(text, 1, k - 1)) + 1][2]
                       = -(LineOf(text, k) * Px(FONT_SIZE) - Px(BUFFER))
           /\ frame.layout.totalHeight
                 = (LineOf(text, Len(text) + 1) + 1) * Px(FONT_SIZE)

\* the widest line of a text: the greatest value the horizontal cursor takes
WidestLine(text) ==
    LET ends == { SumWidths(text, LineStart(text, k), k) :
                    k \in { j \in 1..Len(text) : text[j] # NL } }
    IN IF ends = {} THEN 0 ELSE CHOOSE w \in ends : \A v \in ends : v <= w

\* the alignment offset of a marker: (-totalWidth / 2, totalHeight / 2)
MarkerAlignment(text) ==
    << -(WidestLine(text) \div 2),
       (CursorY(text, Len(text) + 1) + Px(FONT_SIZE)) \div 2 >>

\* the foreground color of a marker
MarkerForeground(marker, auto) ==
    OrElse(FirstColor(AutoColors(marker, auto)),
           OrElse(marker.color, Some(DEFAULT_COLOR)))[1]

\* a marker has an outline when its colors, after the automatic background,
\* are a foreground and an outline color
MarkerHasOutline(marker, auto) ==
    AutoColors(marker, auto) # None /\ Len(AutoColors(marker, auto)[1]) = 2

\* C11: after the layout of a frame every instance slot of a marker carries
\* that marker's alignment offset (-totalWidth / 2, totalHeight / 2), scale,
\* foreground and outline colors with the outline flag, and billboard flag;
\* the slots of the markers are consecutive ranges in marker order.
C11_PerMarkerStamping ==
    pc \in {"draw", "done"} =>
        \A m \in 1..Len(frame.props) :
            \A k \in 1..Len(frame.props[m].text) :
                LET marker == frame.props[m]
                    slot == SlotOf(frame.props, m, k) + 1
                    L == frame.layout
                IN marker.text[k] # NL =>
                      /\ slot \in DOMAIN L.alignmentOffset
                      /\ L.alignmentOffset[slot] = MarkerAlignment(marker.text)
                      /\ L.scale[slot] = marker.scale
                      /\ L.billboard[slot] = BillboardFlag(marker)
                      /\ L.foregroundColor[slot]
                            = MarkerForeground(marker, autoBackgroundColor)
                      /\ L.enableOutline[slot]
                            = (IF MarkerHasOutline(marker, autoBackgroundColor)
                               THEN 1 ELSE 0)
                      /\ MarkerHasOutline(marker, autoBackgroundColor) =>
                            L.outlineColor[slot]
                               = AutoColors(marker, autoBackgroundColor)[1][2]

\* the layout went through a marker: the loops were left at line 305 or 312
WentThroughMarker ==
    pc = "done" /\ frame.layout.outcome \in {"returned", "ReferenceError"}

\* the number of colors a marker supplies
Supplied(marker) == IF marker.colors = None THEN 0 ELSE Len(marker.colors[1])

\* C12: with autoBackgroundColor on and fewer than two colors supplied, the
\* marker's colors are its foreground (first supplied color, else the marker
\* color, else the default color) and the light background if the foreground
\* is dark, the dark background otherwise; with two colors supplied, or with
\* autoBackgroundColor off, the marker's colors are left unchanged.
C12_AutoBackground ==
    WentThroughMarker =>
        LET marker == LaidOutMarker
            foreground ==
                IF Supplied(marker) > 0 THEN marker.colors[1][1]
                ELSE IF marker.color # None THEN marker.color[1]
                ELSE DEFAULT_COLOR
        IN /\ autoBackgroundColor /\ Supplied(marker) < 2 =>
                 /\ frame.layout.colors # None
                 /\ Len(frame.layout.colors[1]) = 2
                 /\ frame.layout.colors[1][1] = foreground
                 /\ isColorDark(foreground) =>
                       frame.layout.colors[1][2] = BG_COLOR_LIGHT
                 /\ ~isColorDark(foreground) =>
                       frame.layout.colors[1][2] = BG_COLOR_DARK
           /\ ~autoBackgroundColor \/ Supplied(marker) = 2 =>
                 frame.layout.colors = marker.colors

\* a marker with a light color and no colors gets the dark background, and a
\* marker with one dark color the light one
C12_Witness ==
    /\ WentThroughMarker
    /\ autoBackgroundColor
    /\ \/ /\ Supplied(LaidOutMarker) = 0
          /\ LaidOutMarker.color = Some(Color(1, 1, 0, 1))
          /\ frame.layout.colors = Some(<<Color(1, 1, 0, 1), BG_COLOR_DARK>>)
       \/ /\ Supplied(LaidOutMarker) = 1
          /\ frame.layout.colors = Some(<<Color(0, 0, 1, 1), BG_COLOR_LIGHT>>)

\* a text has a non-newline character without entry in the glyph map
MissingIn(text, charInfo) ==
    \E k \in 1..Len(text) : text[k] # NL /\ text[k] \notin DOMAIN charInfo

\* the first character of a text without entry in the glyph map
FirstMissing(text, charInfo) ==
    CHOOSE k \in 1..Len(text) :
        /\ text[k] # NL /\ text[k] \notin DOMAIN charInfo
        /\ \A j \in 1..(k - 1) : text[j] = NL \/ text[j] \in DOMAIN charInfo

HasText == \E m \in 1..Len(frame.props) : frame.props[m].text # <<>>

JustBuilt == pc = "upload" /\ frame.computed

\* C14: in the atlas build a square reaching past the atlas width is clipped:
\* exactly the columns j with x + j < width are copied, every index stored
\* to is below width * height, and the build completes for every character
\* set (every character is placed and copied).
C14_ClippedBuild ==
    JustBuilt =>
        LET atlas == frame.atlas
        IN /\ DOMAIN atlas.charInfo = ToSet(charSet)
           /\ Len(atlas.textureData) = Len(charSet)
           /\ \A k \in 1..Len(atlas.textureData) :
                 LET b == atlas.textureData[k]
                 IN \A j \in 0..(SDF_SIZE - 1) :
                       /\ Copies(b.x, j, atlas.textureWidth)
                             <=> b.x + j < atlas.textureWidth
                       /\ Copies(b.x, j, atlas.textureWidth) =>
                             \A i \in 0..(SDF_SIZE - 1) :
                                WriteIndex(atlas.textureWidth, b.x, b.y, i, j)
                                   \in 0..(atlas.textureWidth * atlas.textureHeight - 1)

\* a square that reaches past the atlas width: H alone, 40 texels wide
C14_Witness ==
    /\ JustBuilt
    /\ charSet = <<"H">>
    /\ frame.atlas.textureWidth < frame.atlas.textureData[1].x + SDF_SIZE
    /\ Copies(0, 39, frame.atlas.textureWidth)
    /\ ~Copies(0, 40, frame.atlas.textureWidth)

\* the builder call of a frame, from the atlas of the last call to the new one
BuilderCall == pc = "build" /\ pc' = "upload"

\* the builder call recomputes the atlas of a set that grew beyond a set
\* with characters already placed
Regrowth ==
    /\ BuilderCall
    /\ frame'.computed
    /\ DOMAIN memo.lastResult.charInfo # {}
    /\ Len(charSet) > Len(memo.lastArgs)

\* character c is placed at the same (x, y) by two atlases
SamePlace(c, old, new) ==
    /\ c \in DOMAIN new.charInfo
    /\ new.charInfo[c].x = old.charInfo[c].x
    /\ new.charInfo[c].y = old.charInfo[c].y

\* C15 as stated: placement is not stable across rebuilds; the atlas
\* rebuilt after a growth of the character set places some previously
\* placed character at another (x, y).
C15_RebuildRepositions ==
    [][Regrowth =>
          \E c \in DOMAIN memo.lastResult.charInfo :
              ~SamePlace(c, memo.lastResult, memo'.lastResult)]_vars

\* C15 (amended): placement is stable across rebuilds; the atlas returned by
\* a builder call places every previously placed character at the (x, y) it
\* had in the previous atlas.
C15_StablePlacement ==
    [][BuilderCall =>
          \A c \in DOMAIN memo.lastResult.charInfo :
              SamePlace(c, memo.lastResult, memo'.lastResult)]_vars

\* a rebuild after a growth that opened a second row: the characters placed
\* before are where the atlas of the set before the growth had them
C15_Witness ==
    /\ JustBuilt
    /\ frame.prevNumChars > 0
    /\ Len(charSet) > frame.prevNumChars
    /\ frame.atlas.textureHeight > rowHeight
    /\ frame.atlas.textureWidth > buildAtlas(CharSetBefore).textureWidth
    /\ \A c \in ToSet(CharSetBefore) :
          SamePlace(c, buildAtlas(CharSetBefore), frame.atlas)

\* C16: for the single-line text "Hi" (H 20 wide, i 8 wide, font size 40,
\* padding 10) layout produces exactly 2 instances with totalWidth = 28 and
\* alignment offset (-14, 40).
C16_ExampleHi ==
    pc \in {"draw", "done"} /\ frame.props = <<Marker(<<"H", "i">>)>> =>
        /\ frame.layout.outcome \notin {"TypeError", "ReferenceError"}
        /\ frame.layout.totalInstances = 2
        /\ frame.layout.totalWidth = Px(28)
        /\ \A slot \in 1..2 :
              frame.layout.alignmentOffset[slot] = << -Px(14), Px(40) >>

\* C17: the size-only upload guard never leaves a stale texture; on every
\* context the command was initialized on, when a frame lays out at least
\* one instance the texture last uploaded to that context is the bitmap, with
\* its width and height, of the atlas the frame's layout used.
C17_NoStaleTexture ==
    pc \in {"draw", "done"} /\ frame.layout.markerInstances > 0 =>
        textures[frame.ctx] = [data   |-> frame.atlas.textureData,
                               width  |-> frame.atlas.textureWidth,
                               height |-> frame.atlas.textureHeight]

\* the cell of a character, [x, x + dx) x [y, y + rowHeight), as its columns
\* and rows; dx is the width rounded up plus the padding on both sides
CellCols(info) == info.x .. (info.x + (info.width + Q - 1) \div Q + 2 * BUFFER - 1)

CellRows(info) == info.y .. (info.y + FONT_SIZE + 2 * BUFFER - 1)

\* C18: in every built atlas the cells of distinct characters are pairwise
\* disjoint, and every texel of a character's cell holds that character's
\* own raster sample at the corresponding row and column, or 0 in the
\* columns beyond the raster size, never a sample of another character.
C18_CellsHoldOwnGlyph ==
    JustBuilt =>
        LET atlas == frame.atlas
        IN /\ \A c, d \in DOMAIN atlas.charInfo :
                 c # d =>
                    \/ CellCols(atlas.charInfo[c]) \cap CellCols(atlas.charInfo[d]) = {}
                    \/ CellRows(atlas.charInfo[c]) \cap CellRows(atlas.charInfo[d]) = {}
           /\ \A c \in DOMAIN atlas.charInfo :
                 LET info == atlas.charInfo[c]
                 IN \A col \in CellCols(info), row \in CellRows(info) :
                       TexelAt(atlas, atlas.textureWidth * row + col)
                          = IF col - info.x < SDF_SIZE
                            THEN <<c, row - info.y, col - info.x>>
                            ELSE <<>>

\* the square of H reaches 20 columns into the cell of the newline placed
\* after it, whose texels hold the newline's samples; the cell of W is wider
\* than its square and 0 beyond it
C18_Witness ==
    /\ JustBuilt
    /\ charSet = <<"H", NL, "W">>
    /\ frame.atlas.charInfo[NL].x < frame.atlas.charInfo["H"].x + SDF_SIZE
    /\ TexelAt(frame.atlas, 45) = <<NL, 0, 5>>
    /\ TexelAt(frame.atlas, frame.atlas.textureWidth * 60 + 59) = <<"W", 0, 59>>
    /\ TexelAt(frame.atlas, frame.atlas.textureWidth * 60 + 60) = <<>>

\* the characters of a text that emit an instance, in slot order
Emitting(text) == SelectSeq(text, LAMBDA c : c # NL)

\* the right edge of the cell of a character, in units
CellRight(info) == Px(info.x + (info.width + Q - 1) \div Q + 2 * BUFFER)

\* C19: every instance emitted by layout samples the source rectangle
\* [srcOffset.x, srcOffset.x + srcWidth) x [srcOffset.y, srcOffset.y + rowHeight)
\* with srcOffset the character's recorded (x, y); the rectangle lies inside
\* the atlas (textureWidth x textureHeight) and inside the character's own
\* cell, so it meets no other character's cell.
C19_SourceInsideOwnCell ==
    WentThroughMarker =>
        LET atlas == frame.atlas
            L == frame.layout
            chars == Emitting(LaidOutMarker.text)
        IN \A slot \in 1..L.markerInstances :
              LET info == atlas.charInfo[chars[slot]]
                  left == L.srcOffsets[slot][1]
                  top == L.srcOffsets[slot][2]
                  right == left + L.srcWidths[slot]
                  bottom == top + Px(FONT_SIZE + 2 * BUFFER)
              IN /\ left = Px(info.x) /\ top = Px(info.y)
                 /\ 0 <= left /\ right <= Px(atlas.textureWidth)
                 /\ 0 <= top /\ bottom <= Px(atlas.textureHeight)
                 /\ right <= CellRight(info)
                 /\ \A d \in DOMAIN atlas.charInfo \ {chars[slot]} :
                       LET other == atlas.charInfo[d]
                       IN \/ right <= Px(other.x)
                          \/ CellRight(other) <= left
                          \/ bottom <= Px(other.y)
                          \/ Px(other.y + FONT_SIZE + 2 * BUFFER) <= top

\* an instance of W, whose width 472.5 is rounded up for its cell, in an atlas
\* of two rows
C19_Witness ==
    /\ WentThroughMarker
    /\ frame.layout.markerInstances = 2
    /\ LaidOutMarker.text = <<"H", "W">>
    /\ frame.layout.srcOffsets[2] = <<0, Px(60)>>
    /\ frame.layout.srcWidths[2] = Px(492) + 2
    /\ frame.atlas.textureWidth = 493

====
